---- MODULE Spec2Model ----
(***************************************************************************)
(* A model of esp-generate's Active Configuration Resolver                 *)
(* (src/src/config.rs), of the option catalog it works on                   *)
(* (src/src/template.rs), of the interactive toggle that drives it         *)
(* (src/src/tui.rs), of the Template Directive Processor, process_file     *)
(* (src/src/main.rs), of the background toolchain scan                     *)
(* (src/src/toolchain.rs), of the report of the installed tools             *)
(* (src/src/check.rs) and of the key loop of the editor, App::run           *)
(* (src/src/tui.rs).                                                        *)
(*                                                                          *)
(* Conventions.  Rust indices are 0-based, the sequences here are 1-based:  *)
(* `selected` holds indices into `flat_options` counted from 1.  An         *)
(* Option<usize> is a number with 0 standing for None.  A requirement       *)
(* string is the record [neg, key]: neg is TRUE iff the string starts with  *)
(* '!', key is the string after the stripped '!'.  Option names are unique  *)
(* in a catalog and differ from every group name (config.rs:116).           *)
(*                                                                          *)
(* The text process_file works on is a sequence of lines, a line (like      *)
(* every other string of process_file) a sequence of lexemes: "#", "//",    *)
(* "IF", " ", "opt1", ...  No lexeme contains white space but " " itself,   *)
(* and the lexemes are cut so that every prefix the code tests for is a     *)
(* prefix of lexemes.  The String `res` is the sequence of the lines pushed *)
(* to it, each with its '\n'.                                               *)
(***************************************************************************)
EXTENDS Integers, Sequences, FiniteSets, TLC

VARIABLES
    chip,           \* ActiveConfiguration::chip
    options,        \* ActiveConfiguration::options, the tree of items
    flat_options,   \* ActiveConfiguration::flat_options
    selected,       \* ActiveConfiguration::selected
    path,           \* Repository::path
    panicked,       \* TRUE once an unwrap()/panic!() has aborted the process
    last,           \* history: the last call, its argument, `selected` before it
    contents,       \* process_file: the lines of `contents`
    opts,           \* process_file: `options`, the selected option names
    variables,      \* process_file: `variables`, a list of [key, value]
    file_path,      \* process_file: `*file_path`
    res,            \* process_file: `res`
    replace,        \* process_file: `replace`, <<>> for None
    include,        \* process_file: `include`, the stack of bools
    first_line,     \* process_file: `first_line`
    pc,             \* process_file: the number of the line the loop is at
    ret,            \* process_file: "running", or how the call ended
    emitted,        \* history: the numbers of the lines pushed to `res`
    scan,           \* the scan thread: where the spawned closure is
    rx,             \* the mpsc channel: the messages sent and not yet received
    cached,         \* ToolchainScan::cached
    answers,        \* history: the calls of try_get_toolchain_list, in order
    probe_rs_required,         \* create_check_results: `probe_rs_required`
    versions,                  \* create_check_results: msrv and the four Option<Version>
    message,                   \* create_check_results: `result`, its lines
    requirements_unsatisfied,  \* create_check_results: `requirements_unsatisfied`
    step,           \* create_check_results: the statement it is at
    confirm_quit,   \* App::confirm_quit
    state,          \* App::state, the selected row of each open menu
    run,            \* App::run: "running", or what it returned
    pressed         \* history: the last key and the editor as the key found it

rvars == <<chip, options, flat_options, selected, path, panicked, last>>

fvars == <<contents, opts, variables, file_path, res, replace, include,
           first_line, pc, ret, emitted>>

tvars == <<scan, rx, cached, answers>>

cvars == <<probe_rs_required, versions, message, requirements_unsatisfied, step>>

avars == <<confirm_quit, state, run, pressed>>

vars == <<chip, options, flat_options, selected, path, panicked, last,
          contents, opts, variables, file_path, res, replace, include,
          first_line, pc, ret, emitted, scan, rx, cached, answers,
          probe_rs_required, versions, message, requirements_unsatisfied, step,
          confirm_quit, state, run, pressed>>

----------------------------------------------------------------------------
(* Bounds of the model.                                                     *)

\* Total number of requirement tokens in a catalog without categories.
MaxTokens == 2
\* Total number of requirement tokens in a catalog the interactive editor runs on.
MaxTuiTokens == 1
\* Longest `selected` list the model follows.
MaxSelected == 3
\* Number of options of a catalog that carry a non-empty `chips` list.
MaxRestricted == 1
\* Longest IF / ELIF chain of a template: the number of its conditions.
MaxBranches == 3
\* Deepest nesting of IF blocks in a template.
MaxDepth == 2
\* Longest template put together freely from the lines of FreeLines.
MaxLines == 3
\* Longest template put together freely from the lines of TextLines.
MaxText == 4
\* Number of calls of try_get_toolchain_list followed.
MaxCalls == 3

(* The universe the catalogs are drawn from.                                *)
Chips == {"esp32", "esp32c3"}
OptionNames == <<"option1", "option2", "option3">>
GroupNames == {"group"}
NoGroup == ""

NameSet == {OptionNames[i] : i \in 1..Len(OptionNames)}
Keys == NameSet \cup GroupNames
Tokens == [neg : BOOLEAN, key : Keys]

Pos(k) == [neg |-> FALSE, key |-> k]
Neg(k) == [neg |-> TRUE, key |-> k]

----------------------------------------------------------------------------
(* src/src/template.rs: the catalog's items.                                *)

GeneratorOption(n, g, r, c) ==
    [kind |-> "Option", name |-> n, selection_group |-> g, requires |-> r, chips |-> c]

GeneratorOptionCategory(n, r, subs) ==
    [kind |-> "Category", name |-> n, requires |-> r, options |-> subs]

is_category(item) == item.kind = "Category"

----------------------------------------------------------------------------
(* src/src/config.rs                                                        *)

RECURSIVE flatten_options(_)
flatten_options(items) ==
    IF items = <<>> THEN <<>>
    ELSE LET item == Head(items)
             first == IF is_category(item) THEN flatten_options(item.options)
                      ELSE <<item>>
         IN first \o flatten_options(Tail(items))

\* requirement.strip_prefix('!'): Some(rest) for a negative token
strip_prefix(requirement) ==
    IF requirement.neg THEN requirement.key ELSE NoGroup

\* `o == &name` for a requirement string o: the whole string equals the name
TokenIs(o, name) == ~o.neg /\ o.key = name

is_group_selected(sel, group) ==
    \E k \in 1..Len(sel) : flat_options[sel[k]].selection_group = group

\* position (from 1) of the first entry naming `option`, 0 for None
selected_index(sel, option) ==
    LET hits == {k \in 1..Len(sel) : flat_options[sel[k]].name = option}
    IN IF hits = {} THEN 0 ELSE CHOOSE k \in hits : \A j \in hits : k <= j

is_selected(sel, option) == selected_index(sel, option) # 0

group_exists(key) ==
    \E i \in 1..Len(flat_options) : flat_options[i].selection_group = key

\* Mutant of requirements_met: a negative requirement is never checked.
RECURSIVE requirements_met_ignoring_negative(_, _)
requirements_met_ignoring_negative(sel, requires) ==
    IF requires = <<>> THEN TRUE
    ELSE LET requirement == Head(requires)
             key == requirement.key
         IN IF requirement.neg
              THEN requirements_met_ignoring_negative(sel, Tail(requires))
            ELSE IF is_selected(sel, key)
              THEN requirements_met_ignoring_negative(sel, Tail(requires))
            ELSE IF group_exists(key) /\ is_group_selected(sel, key)
              THEN requirements_met_ignoring_negative(sel, Tail(requires))
            ELSE FALSE

\* Mutant of requirements_met: only an option of that name satisfies a token,
\* a selected member of a group of that name does not.
RECURSIVE requirements_met_names_only(_, _)
requirements_met_names_only(sel, requires) ==
    IF requires = <<>> THEN TRUE
    ELSE LET requirement == Head(requires)
         IN IF is_selected(sel, requirement.key) = ~requirement.neg
              THEN requirements_met_names_only(sel, Tail(requires))
            ELSE FALSE

RECURSIVE requirements_met(_, _)
requirements_met(sel, requires) ==
    IF requires = <<>> THEN TRUE
    ELSE LET requirement == Head(requires)
             key == requirement.key
             expected == ~requirement.neg
         IN IF is_selected(sel, key) = expected
              THEN requirements_met(sel, Tail(requires))
            ELSE IF group_exists(key) /\ is_group_selected(sel, key) = expected
              THEN requirements_met(sel, Tail(requires))
            ELSE FALSE

\* Mutant of is_option_active: the requirements of the selected options against
\* this option are not looked at.
is_option_active_one_way(sel, option) ==
    IF option.chips # {} /\ chip \notin option.chips THEN FALSE
    ELSE requirements_met(sel, option.requires)

\* Every entry of `selected` is an index of flat_options, so the panic of
\* config.rs:158-161 is never taken.
is_option_active(sel, option) ==
    IF option.chips # {} /\ chip \notin option.chips THEN FALSE
    ELSE IF ~requirements_met(sel, option.requires) THEN FALSE
    ELSE ~\E k \in 1..Len(sel) :
            \E r \in 1..Len(flat_options[sel[k]].requires) :
                LET requirement == flat_options[sel[k]].requires[r]
                IN requirement.neg /\ strip_prefix(requirement) = option.name

\* Mutant of is_active: a category asks for an active option anywhere below it,
\* whatever the categories in between.
is_active_flat(sel, item) ==
    IF is_category(item)
      THEN IF ~requirements_met(sel, item.requires) THEN FALSE
           ELSE \E s \in 1..Len(flatten_options(item.options)) :
                   is_option_active(sel, flatten_options(item.options)[s])
      ELSE is_option_active(sel, item)

RECURSIVE is_active(_, _)
is_active(sel, item) ==
    IF is_category(item)
      THEN IF ~requirements_met(sel, item.requires) THEN FALSE
           ELSE \E s \in 1..Len(item.options) : is_active(sel, item.options[s])
      ELSE is_option_active(sel, item)

\* Mutant of can_be_disabled_impl: allow_deselecting_group is ignored.
can_be_disabled_impl_no_flag(sel, option, allow_deselecting_group) ==
    LET op == flat_options[option]
    IN ~\E k \in 1..Len(sel) :
          \E r \in 1..Len(flat_options[sel[k]].requires) :
             LET o == flat_options[sel[k]].requires[r]
             IN TokenIs(o, op.name) \/ TokenIs(o, op.selection_group)

can_be_disabled_impl(sel, option, allow_deselecting_group) ==
    LET op == flat_options[option]
    IN ~\E k \in 1..Len(sel) :
          \E r \in 1..Len(flat_options[sel[k]].requires) :
             LET o == flat_options[sel[k]].requires[r]
             IN \/ TokenIs(o, op.name)
                \/ (TokenIs(o, op.selection_group) /\ ~allow_deselecting_group)

\* The (selected option, requirement) pairs in the order the loops of
\* collect_relationships visit them: `selected` in order, each option's
\* requires in order.
RECURSIVE SelectedRequirements(_)
SelectedRequirements(sel) ==
    IF sel = <<>> THEN <<>>
    ELSE LET opt == flat_options[Head(sel)]
         IN [r \in 1..Len(opt.requires) |-> [opt |-> opt.name, o |-> opt.requires[r]]]
            \o SelectedRequirements(Tail(sel))

\* Mutant of collect_relationships: the option's own negative requirements are
\* listed in disabled_by whether or not the option they name is selected.
collect_relationships_unchecked(sel, option) ==
    LET visited == SelectedRequirements(sel)
        Disables(v) == v.o.neg /\ strip_prefix(v.o) = option.name
        Requires(v) == ~v.o.neg /\ v.o.key = option.name
        Negative(req) == req.neg
        Positive(req) == ~req.neg
        by_others == SelectSeq(visited, Disables)
        by_own == SelectSeq(option.requires, Negative)
        needed_by == SelectSeq(visited, Requires)
        needs == SelectSeq(option.requires, Positive)
    IN [requires |-> [k \in 1..Len(needs) |-> needs[k].key],
        required_by |-> [k \in 1..Len(needed_by) |-> needed_by[k].opt],
        disabled_by |-> [k \in 1..Len(by_others) |-> by_others[k].opt]
                        \o [k \in 1..Len(by_own) |-> strip_prefix(by_own[k])]]

\* Relationships { requires, required_by, disabled_by }, each a list of names.
collect_relationships(sel, option) ==
    LET visited == SelectedRequirements(sel)
        Disables(v) == v.o.neg /\ strip_prefix(v.o) = option.name
        Requires(v) == ~v.o.neg /\ v.o.key = option.name
        OwnDisabled(req) == req.neg /\ is_selected(sel, strip_prefix(req))
        Positive(req) == ~req.neg
        by_others == SelectSeq(visited, Disables)
        by_own == SelectSeq(option.requires, OwnDisabled)
        needed_by == SelectSeq(visited, Requires)
        needs == SelectSeq(option.requires, Positive)
    IN [requires |-> [k \in 1..Len(needs) |-> needs[k].key],
        required_by |-> [k \in 1..Len(needed_by) |-> needed_by[k].opt],
        disabled_by |-> [k \in 1..Len(by_others) |-> by_others[k].opt]
                        \o [k \in 1..Len(by_own) |-> strip_prefix(by_own[k])]]

\* first index (from 1) of an option of that name applicable to the chip, 0 for None
find_option(option) ==
    LET hits == {i \in 1..Len(flat_options) :
                    /\ flat_options[i].name = option
                    /\ (flat_options[i].chips = {} \/ chip \in flat_options[i].chips)}
    IN IF hits = {} THEN 0 ELSE CHOOSE i \in hits : \A j \in hits : i <= j

\* Mutant of deselect_group: the group's members are checked but not removed.
deselect_group_no_retain(sel, group) ==
    IF group = NoGroup THEN [ok |-> TRUE, selected |-> sel]
    ELSE [ok |-> \A k \in 1..Len(sel) :
                    flat_options[sel[k]].selection_group = group
                       => can_be_disabled_impl(sel, sel[k], TRUE),
          selected |-> sel]

\* Mutant of deselect_group: the group's members are removed without the check.
deselect_group_unchecked(sel, group) ==
    IF group = NoGroup THEN [ok |-> TRUE, selected |-> sel]
    ELSE LET Keep(s) == flat_options[s].selection_group # group
         IN [ok |-> TRUE, selected |-> SelectSeq(sel, Keep)]

\* Returns [ok, selected]: the bool result and the list as the call leaves it.
deselect_group(sel, group) ==
    IF group = NoGroup THEN [ok |-> TRUE, selected |-> sel]
    ELSE IF ~\A k \in 1..Len(sel) :
               IF flat_options[sel[k]].selection_group = group
                 THEN can_be_disabled_impl(sel, sel[k], TRUE)
                 ELSE TRUE
      THEN [ok |-> FALSE, selected |-> sel]
    ELSE LET Keep(s) == flat_options[s].selection_group # group   \* Vec::retain
         IN [ok |-> TRUE, selected |-> SelectSeq(sel, Keep)]

\* Mutant of select_idx: the option is pushed without asking whether it is active.
select_idx_unguarded(sel, idx) ==
    LET d == deselect_group(sel, flat_options[idx].selection_group)
    IN IF ~d.ok THEN sel ELSE Append(d.selected, idx)

\* Mutant of select_idx: an option that was in the list already is not pushed again.
select_idx_no_repush(sel, idx) ==
    LET o == flat_options[idx]
    IN IF ~is_option_active(sel, o) THEN sel
       ELSE LET d == deselect_group(sel, o.selection_group)
            IN IF ~d.ok THEN sel
               ELSE IF \E k \in 1..Len(sel) : sel[k] = idx THEN d.selected
               ELSE Append(d.selected, idx)

select_idx(sel, idx) ==
    LET o == flat_options[idx]
    IN IF ~is_option_active(sel, o) THEN sel
       ELSE LET d == deselect_group(sel, o.selection_group)
            IN IF ~d.ok THEN sel ELSE Append(d.selected, idx)

\* can_be_disabled(name) after its find_option(..).unwrap() succeeded
can_be_disabled(sel, option) ==
    can_be_disabled_impl(sel, find_option(option), FALSE)

----------------------------------------------------------------------------
(* src/src/tui.rs: Repository                                               *)

\* The items of the level `p` leads to (p holds positions counted from 1).
RECURSIVE LevelAt(_, _)
LevelAt(items, p) ==
    IF p = <<>> THEN items ELSE LevelAt(items[Head(p)].options, Tail(p))

current_level(p) == LevelAt(options, p)

RECURSIVE LevelIsActive(_, _, _)
LevelIsActive(sel, items, p) ==
    IF p = <<>> THEN TRUE
    ELSE IF ~is_active(sel, items[Head(p)]) THEN FALSE
    ELSE LevelIsActive(sel, items[Head(p)].options, Tail(p))

current_level_is_active(sel, p) == LevelIsActive(sel, options, p)

is_option(p, index) == ~is_category(current_level(p)[index])

\* Vec::swap_remove(i): the last element takes the place of the removed one
swap_remove(sel, i) ==
    IF i = Len(sel) THEN SubSeq(sel, 1, Len(sel) - 1)
    ELSE [k \in 1..(Len(sel) - 1) |-> IF k = i THEN sel[Len(sel)] ELSE sel[k]]

\* `selected` as toggle_current(index) leaves it.  App::run calls it on Option
\* items only (tui.rs:309), so its unreachable!() is never taken; an active
\* option fits the chip, so the unwrap()s of can_be_disabled and select hold.
toggle_current(sel, p, index) ==
    IF ~current_level_is_active(sel, p) THEN sel
    ELSE IF ~is_active(sel, current_level(p)[index]) THEN sel
    ELSE LET option == current_level(p)[index]
             i == selected_index(sel, option.name)
         IN IF i # 0
              THEN IF can_be_disabled(sel, option.name) THEN swap_remove(sel, i) ELSE sel
              ELSE select_idx(sel, find_option(option.name))

----------------------------------------------------------------------------
(* src/src/tui.rs: App                                                      *)

\* The keys App::run tells apart; "x" stands for every key it ignores.
KeyCodes == {"q", "y", "Y", "s", "S", "Esc", "h", "l", "j", "k", "x"}

\* What App::run has returned, if it has: Ok(Some(selected)) or Ok(None).
Running == [kind |-> "running", selected |-> <<>>]
Saved(sel) == [kind |-> "Some", selected |-> sel]
Cancelled == [kind |-> "None", selected |-> <<>>]

\* App::selected: the row of the innermost menu (rows counted from 1)
app_selected(st) == IF st # <<>> THEN st[Len(st)] ELSE 1

\* App::select_next; the list widget keeps the row inside the `rows` rows
\* of the level when it is drawn.
select_next(st, rows) ==
    IF st = <<>> THEN st
    ELSE [st EXCEPT ![Len(st)] = IF @ < rows THEN @ + 1 ELSE @]

\* App::select_previous
select_previous(st) ==
    IF st = <<>> THEN st
    ELSE [st EXCEPT ![Len(st)] = IF @ > 1 THEN @ - 1 ELSE @]

\* App::enter_menu
enter_menu(st) == Append(st, 1)

\* App::exit_menu
exit_menu(st) == IF Len(st) > 1 THEN SubSeq(st, 1, Len(st) - 1) ELSE st

\* Repository::up
up(p) == IF p = <<>> THEN p ELSE SubSeq(p, 1, Len(p) - 1)

\* The match on key.code of App::run with no confirmation pending, on the
\* editor a = [selected, path, state, confirm_quit, run] (tui.rs:290-322).
match_key(a, code) ==
    IF code = "q" THEN [a EXCEPT !.confirm_quit = TRUE]
    ELSE IF code \in {"s", "S"} THEN [a EXCEPT !.run = Saved(a.selected)]
    ELSE IF code = "Esc"
      THEN IF Len(a.state) = 1 THEN [a EXCEPT !.confirm_quit = TRUE]
           ELSE [a EXCEPT !.path = up(@), !.state = exit_menu(@)]
    ELSE IF code = "h" THEN [a EXCEPT !.path = up(@), !.state = exit_menu(@)]
    ELSE IF code = "l"
      THEN IF is_option(a.path, app_selected(a.state))
             THEN [a EXCEPT !.selected = toggle_current(@, a.path, app_selected(a.state))]
           ELSE [a EXCEPT !.path = Append(@, app_selected(a.state)),
                          !.state = enter_menu(@)]
    ELSE IF code = "j" THEN [a EXCEPT !.state = select_next(@, Len(current_level(a.path)))]
    ELSE IF code = "k" THEN [a EXCEPT !.state = select_previous(@)]
    ELSE a

\* Mutant of key_press: a key other than y / Y dismisses the confirmation
\* and is then handled as if nothing had been pending.
key_press_through(a, code) ==
    IF a.confirm_quit
      THEN IF code \in {"y", "Y"} THEN [a EXCEPT !.run = Cancelled]
           ELSE match_key([a EXCEPT !.confirm_quit = FALSE], code)
    ELSE match_key(a, code)

\* One key press in App::run (tui.rs:279-322).
key_press(a, code) ==
    IF a.confirm_quit
      THEN IF code \in {"y", "Y"} THEN [a EXCEPT !.run = Cancelled]
           ELSE [a EXCEPT !.confirm_quit = FALSE]
    ELSE match_key(a, code)

----------------------------------------------------------------------------
(* Strings, as process_file uses them (std::str).                           *)

\* Option<&str>: [some, rest]
None == [some |-> FALSE, rest |-> <<>>]
Some(str) == [some |-> TRUE, rest |-> str]

or_else(a, b) == IF a.some THEN a ELSE b

starts_with(str, prefix) ==
    Len(prefix) <= Len(str) /\ SubSeq(str, 1, Len(prefix)) = prefix

str_strip_prefix(str, prefix) ==
    IF starts_with(str, prefix) THEN Some(SubSeq(str, Len(prefix) + 1, Len(str)))
    ELSE None

\* str::find: the first position (from 1) where `pat` occurs, 0 for None
find(str, pat) ==
    LET hits == {i \in 1..(Len(str) - Len(pat) + 1) :
                    SubSeq(str, i, i + Len(pat) - 1) = pat}
    IN IF hits = {} THEN 0 ELSE CHOOSE i \in hits : \A j \in hits : i <= j

contains(str, pat) == find(str, pat) # 0

RECURSIVE trim_start(_)
trim_start(str) ==
    IF str # <<>> /\ Head(str) = " " THEN trim_start(Tail(str)) ELSE str

RECURSIVE trim_end(_)
trim_end(str) ==
    IF str # <<>> /\ str[Len(str)] = " " THEN trim_end(SubSeq(str, 1, Len(str) - 1))
    ELSE str

trim(str) == trim_end(trim_start(str))

\* str::split_whitespace, collected: the maximal runs without white space
RECURSIVE split_whitespace(_)
split_whitespace(str) ==
    LET t == trim_start(str)
        n == find(t, <<" ">>)
    IN IF t = <<>> THEN <<>>
       ELSE IF n = 0 THEN <<t>>
       ELSE <<SubSeq(t, 1, n - 1)>> \o split_whitespace(SubSeq(t, n, Len(t)))

\* str::split(sep), collected
RECURSIVE split(_, _)
split(str, sep) ==
    LET n == find(str, sep)
    IN IF n = 0 THEN <<str>>
       ELSE <<SubSeq(str, 1, n - 1)>> \o split(SubSeq(str, n + Len(sep), Len(str)), sep)

\* str::replace(from, to): every non-overlapping occurrence, left to right
RECURSIVE str_replace(_, _, _)
str_replace(str, from, to) ==
    LET n == find(str, from)
    IN IF n = 0 THEN str
       ELSE SubSeq(str, 1, n - 1) \o to
            \o str_replace(SubSeq(str, n + Len(from), Len(str)), from, to)

----------------------------------------------------------------------------
(* src/src/main.rs: process_file                                            *)

\* The lexemes of a call of the registered function: option("name")
OptionOpen == "option(\""
OptionClose == "\")"

\* engine.eval::<bool>(cond) with the one registered function, option(name) =
\* options.contains(name): [ok, value].  The expressions followed are a call
\* and a negated call; anything else is taken as an expression the engine
\* rejects (ok = FALSE, an Err for the unwrap()).
eval(cond) ==
    IF Len(cond) = 3 /\ cond[1] = OptionOpen /\ cond[3] = OptionClose
      THEN [ok |-> TRUE, value |-> <<cond[2]>> \in opts]
    ELSE IF Len(cond) = 4 /\ cond[1] = "!" /\ cond[2] = OptionOpen /\ cond[4] = OptionClose
      THEN [ok |-> TRUE, value |-> <<cond[3]>> \notin opts]
    ELSE [ok |-> FALSE, value |-> FALSE]

\* Mutant of include_file_cond: a leading `!` is not taken off.
include_file_cond_bare(word) == word \in opts

\* `!name`: the option must not be selected; `name`: it must be
include_file_cond(word) ==
    LET stripped == str_strip_prefix(word, <<"!">>)
    IN IF stripped.some THEN stripped.rest \notin opts ELSE word \in opts

\* The first line, found to be an INCLUDEFILE directive with the text `cond`.
\* `continue` leaves first_line as it is.
include_file_line(s, cond) ==
    IF ~contains(cond, <<" ">>)
      THEN IF ~include_file_cond(cond) THEN [s EXCEPT !.ret = "None"] ELSE s
    ELSE LET parts == split_whitespace(cond)
             include_file == IF parts # <<>> THEN include_file_cond(parts[1]) ELSE FALSE
         IN IF ~include_file THEN [s EXCEPT !.ret = "None"]
            ELSE IF Len(parts) < 2 THEN [s EXCEPT !.ret = "panic"]   \* parts.next().unwrap()
            ELSE [s EXCEPT !.file_path = parts[2]]

\* position (from 1) of the first variable of that key, 0 for None
find_variable(var_name) ==
    LET hits == {k \in 1..Len(variables) : variables[k].key = var_name}
    IN IF hits = {} THEN 0 ELSE CHOOSE k \in hits : \A j \in hits : k <= j

\* The filter_map over the pairs of a REPLACE directive: a pair with fewer
\* than two words or with an unknown variable gives nothing.
RECURSIVE replacements_of(_)
replacements_of(pairs) ==
    IF pairs = <<>> THEN <<>>
    ELSE LET parts == split_whitespace(Head(pairs))
             k == IF Len(parts) >= 2 THEN find_variable(parts[2]) ELSE 0
         IN (IF k # 0 THEN <<[pattern |-> parts[1], value |-> variables[k].value]>>
             ELSE <<>>)
            \o replacements_of(Tail(pairs))

RECURSIVE apply_replacements(_, _)
apply_replacements(line, replacements) ==
    IF replacements = <<>> THEN line
    ELSE apply_replacements(
             str_replace(line, Head(replacements).pattern, Head(replacements).value),
             Tail(replacements))

RustfmtSkip == <<"#[rustfmt::skip]">>

\* Mutant of include_all: only the top of the stack is asked.
include_top(stack) == stack = <<>> \/ stack[Len(stack)]

\* include.iter().all(|v| *v)
include_all(stack) == \A k \in 1..Len(stack) : stack[k]

\* Vec::pop: the stack without its last element (an empty stack stays empty)
pop(stack) == IF stack = <<>> THEN <<>> ELSE SubSeq(stack, 1, Len(stack) - 1)

\* Mutant of emit_line: the trimmed line is pushed.
emit_line_trimmed(s, line, trimmed) ==
    [s EXCEPT !.res = Append(s.res, apply_replacements(trimmed, s.replace)),
              !.replace = <<>>]

\* Mutant of emit_line: the pending replacements are not cleared.
emit_line_keeping(s, line, trimmed) ==
    LET unhashed == IF starts_with(trimmed, <<"#", "+">>)
                      THEN str_replace(line, <<"#", "+">>, <<>>) ELSE line
        unslashed == IF starts_with(trimmed, <<"//", "+">>)
                       THEN str_replace(unhashed, <<"//", "+">>, <<>>) ELSE unhashed
    IN [s EXCEPT !.res = Append(s.res, apply_replacements(unslashed, s.replace))]

\* The last branch of the loop body: the line is pushed to `res`.
emit_line(s, line, trimmed) ==
    LET unhashed == IF starts_with(trimmed, <<"#", "+">>)
                      THEN str_replace(line, <<"#", "+">>, <<>>) ELSE line
        unslashed == IF starts_with(trimmed, <<"//", "+">>)
                       THEN str_replace(unhashed, <<"//", "+">>, <<>>) ELSE unhashed
    IN [s EXCEPT !.res = Append(s.res, apply_replacements(unslashed, s.replace)),
                 !.replace = <<>>]

\* The loop body after `first_line = false` (main.rs:503-580).
directive_line(s, line, trimmed) ==
    LET what == or_else(str_strip_prefix(trimmed, <<"#", "REPLACE", " ">>),
                        str_strip_prefix(trimmed, <<"//", "REPLACE", " ">>))
        if_cond == or_else(str_strip_prefix(trimmed, <<"#", "IF", " ">>),
                           str_strip_prefix(trimmed, <<"//", "IF", " ">>))
        elif_cond == or_else(str_strip_prefix(trimmed, <<"#", "ELIF", " ">>),
                             str_strip_prefix(trimmed, <<"//", "ELIF", " ">>))
    IN IF trimmed = RustfmtSkip THEN s
       ELSE IF what.some
         THEN LET replacements == replacements_of(split(what.rest, <<" ", "&&", " ">>))
              IN IF replacements # <<>> THEN [s EXCEPT !.replace = replacements] ELSE s
       ELSE IF if_cond.some
         THEN IF ~eval(if_cond.rest).ok \/ s.include = <<>>
                THEN [s EXCEPT !.ret = "panic"]
              ELSE [s EXCEPT !.include =
                       Append(@, eval(if_cond.rest).value /\ s.include[Len(s.include)])]
       ELSE IF elif_cond.some
         THEN IF ~eval(elif_cond.rest).ok \/ s.include = <<>>
                THEN [s EXCEPT !.ret = "panic"]
              ELSE [s EXCEPT !.include =
                       Append(pop(@), eval(elif_cond.rest).value /\ ~s.include[Len(s.include)])]
       ELSE IF starts_with(trimmed, <<"#", "ELSE">>) \/ starts_with(trimmed, <<"//", "ELSE">>)
         THEN IF s.include = <<>> THEN [s EXCEPT !.ret = "panic"]
              ELSE [s EXCEPT !.include = Append(pop(@), ~s.include[Len(s.include)])]
       ELSE IF starts_with(trimmed, <<"#", "ENDIF">>) \/ starts_with(trimmed, <<"//", "ENDIF">>)
         THEN [s EXCEPT !.include = pop(@)]
       ELSE IF include_all(s.include) THEN emit_line(s, line, trimmed)
       ELSE s

\* One turn of `for line in contents.lines()` on the locals
\* s = [res, replace, include, first_line, file_path, ret].
process_line(s, line) ==
    LET trimmed == trim(line)
        cond == or_else(str_strip_prefix(trimmed, <<"//", "INCLUDEFILE", " ">>),
                        str_strip_prefix(trimmed, <<"#", "INCLUDEFILE", " ">>))
    IN IF s.first_line /\ cond.some THEN include_file_line(s, cond.rest)
       ELSE directive_line([s EXCEPT !.first_line = FALSE], line, trimmed)

----------------------------------------------------------------------------
(* The catalogs the model is run on.                                        *)

SeqsUpTo(S, n) == UNION {[1..k -> S] : k \in 0..n}

\* A placement puts requirement tokens on items: a list of [holder, token].
\* No option requires or excludes itself by name.
Placements(holders, n) ==
    SeqsUpTo({pt \in [holder : holders, token : Tokens] : pt.token.key # pt.holder}, n)

RECURSIVE RequiresOf(_, _)
RequiresOf(ps, holder) ==
    IF ps = <<>> THEN <<>>
    ELSE (IF Head(ps).holder = holder THEN <<Head(ps).token>> ELSE <<>>)
         \o RequiresOf(Tail(ps), holder)

\* What an option is besides its name and requirements: its selection group
\* and its chips list.  Option names are arbitrary labels, so a catalog is
\* taken with its options ordered by class (every catalog is such a catalog
\* up to renaming its options).
OptionClasses ==
    << [selection_group |-> "group", chips |-> {}],
       [selection_group |-> "group", chips |-> {"esp32c3"}],
       [selection_group |-> NoGroup, chips |-> {}],
       [selection_group |-> NoGroup, chips |-> {"esp32c3"}] >>

Profiles ==
    {p \in [1..Len(OptionNames) -> 1..Len(OptionClasses)] :
        /\ \A i, j \in 1..Len(OptionNames) : i <= j => p[i] <= p[j]
        /\ Cardinality({i \in 1..Len(OptionNames) : OptionClasses[p[i]].chips # {}})
              <= MaxRestricted}

\* The i-th option of a catalog: placement ps, profile p.
OptionOf(i, ps, p) ==
    GeneratorOption(OptionNames[i], OptionClasses[p[i]].selection_group,
                    RequiresOf(ps, OptionNames[i]), OptionClasses[p[i]].chips)

\* A catalog without categories: every option at the top level.
FlatCatalog(ps, p) == [i \in 1..Len(OptionNames) |-> OptionOf(i, ps, p)]

\* The catalogs with categories: the shapes of the tree over the options.
TreeShapes == {"head", "tail", "nested", "empty"}

CategoriesOf(shape) ==
    CASE shape = "head"   -> {"cat1"}
      [] shape = "tail"   -> {"cat1"}
      [] shape = "nested" -> {"cat1", "cat2"}
      [] shape = "empty"  -> {"cat1"}

TreeCatalog(shape, ps, p) ==
    LET O(i) == OptionOf(i, ps, p)
        C(n, subs) == GeneratorOptionCategory(n, RequiresOf(ps, n), subs)
    IN CASE shape = "head"   -> << C("cat1", <<O(1), O(2)>>), O(3) >>
         [] shape = "tail"   -> << O(1), C("cat1", <<O(2), O(3)>>) >>
         [] shape = "nested" -> << O(1), C("cat1", <<O(2), C("cat2", <<O(3)>>)>>) >>
         [] shape = "empty"  -> << O(1), O(2), O(3), C("cat1", <<>>) >>

----------------------------------------------------------------------------
(* src/src/toolchain.rs: ToolchainScan                                      *)

\* Result<Vec<String>>
Ok(list) == [ok |-> TRUE, list |-> list, err |-> ""]
Err(e) == [ok |-> FALSE, list |-> <<>>, err |-> e]

\* Option<Result<Vec<String>>>: [some, value]
NoList == [some |-> FALSE, value |-> Err("")]
SomeList(r) == [some |-> TRUE, value |-> r]

\* What find_toolchains can come back with (toolchain.rs:164-225): a list,
\* possibly empty, or the error of its sanity check.
ScanResults ==
    { Ok(<<>>), Ok(<<"esp">>), Ok(<<"stable", "esp">>), Err("no toolchain has the target") }

\* Receiver::try_recv on the channel holding `queue`, the sender alive or
\* dropped: [kind, value, queue]
try_recv(queue, alive) ==
    IF queue # <<>> THEN [kind |-> "Ok", value |-> Head(queue), queue |-> Tail(queue)]
    ELSE IF alive THEN [kind |-> "Empty", value |-> Err(""), queue |-> queue]
    ELSE [kind |-> "Disconnected", value |-> Err(""), queue |-> queue]

\* Mutant of try_get_toolchain_list: the cache is filled but never asked.
try_get_toolchain_list_uncached(c, queue, alive) ==
    LET r == try_recv(queue, alive)
    IN IF r.kind = "Ok"
         THEN [cached |-> SomeList(r.value), rx |-> r.queue,
               ret |-> SomeList(r.value), polled |-> TRUE]
       ELSE IF r.kind = "Empty"
         THEN [cached |-> c, rx |-> r.queue, ret |-> NoList, polled |-> TRUE]
       ELSE [cached |-> SomeList(Ok(<<>>)), rx |-> r.queue,
             ret |-> SomeList(Ok(<<>>)), polled |-> TRUE]

\* try_get_toolchain_list on cached = c: what it leaves in `cached` and in
\* the channel, what it returns, and whether it called try_recv.
try_get_toolchain_list(c, queue, alive) ==
    IF c.some THEN [cached |-> c, rx |-> queue, ret |-> c, polled |-> FALSE]
    ELSE LET r == try_recv(queue, alive)
         IN IF r.kind = "Ok"
              THEN [cached |-> SomeList(r.value), rx |-> r.queue,
                    ret |-> SomeList(r.value), polled |-> TRUE]
            ELSE IF r.kind = "Empty"
              THEN [cached |-> c, rx |-> r.queue, ret |-> NoList, polled |-> TRUE]
            ELSE [cached |-> SomeList(Ok(<<>>)), rx |-> r.queue,
                  ret |-> SomeList(Ok(<<>>)), polled |-> TRUE]

----------------------------------------------------------------------------
(* src/src/check.rs: create_check_results                                   *)

\* Version { major, minor, patch } is the tuple <<major, minor, patch>>;
\* Option<Version> is [some, version].
NoVersion == [some |-> FALSE, version |-> <<0, 0, 0>>]
SomeVersion(v) == [some |-> TRUE, version |-> v]

\* (a.major, a.minor, a.patch) < (b.major, b.minor, b.patch)
version_lt(a, b) ==
    \/ a[1] < b[1]
    \/ a[1] = b[1] /\ a[2] < b[2]
    \/ a[1] = b[1] /\ a[2] = b[2] /\ a[3] < b[3]

\* enum CheckResult { Ok(Version), WrongVersion, NotFound }
check_version(version, min) ==
    IF version.some /\ version_lt(version.version, min)
      THEN [kind |-> "WrongVersion", found |-> <<0, 0, 0>>]
    ELSE IF version.some THEN [kind |-> "Ok", found |-> version.version]
    ELSE [kind |-> "NotFound", found |-> <<0, 0, 0>>]

\* The three emojis of a row of the report, by `friendly`.
emojis(friendly) ==
    IF friendly THEN <<"OK", "BULB", "BULB">> ELSE <<"OK", "STOP", "CROSS">>

\* format_result: the row pushed to the report and the bool returned.  A
\* row is [emoji, name, kind, found]: kind tells which of the three texts
\* follows the name, `found` is the version an Ok row shows.
format_result(friendly, name, check_result, required, text) ==
    IF check_result.kind = "Ok"
      THEN [message |-> Append(text, [emoji |-> emojis(friendly)[1], name |-> name,
                                      kind |-> "Ok", found |-> check_result.found]),
            unsatisfied |-> FALSE]
    ELSE IF check_result.kind = "WrongVersion"
      THEN [message |-> Append(text, [emoji |-> emojis(friendly)[2], name |-> name,
                                      kind |-> "wrong_version_help", found |-> <<0, 0, 0>>]),
            unsatisfied |-> required]
    ELSE [message |-> Append(text, [emoji |-> emojis(friendly)[3], name |-> name,
                                    kind |-> "not_found_help", found |-> <<0, 0, 0>>]),
          unsatisfied |-> required]

\* The minimum versions create_check_results writes out (check.rs:202-223).
EspflashMinimum == <<3, 3, 0>>
ProbeRsMinimum == <<0, 31, 0>>
EspConfigMinimum == <<0, 5, 0>>

\* The arguments of the four format_result calls of create_check_results,
\* in their order (check.rs:190-229).
ToolCalls(required_probe_rs, v) ==
    << [friendly |-> FALSE, name |-> "Rust", version |-> v.rust_version,
        min |-> v.msrv, required |-> TRUE],
       [friendly |-> FALSE, name |-> "espflash", version |-> v.espflash_version,
        min |-> EspflashMinimum, required |-> TRUE],
       [friendly |-> ~required_probe_rs, name |-> "probe-rs",
        version |-> v.probers_version, min |-> ProbeRsMinimum,
        required |-> required_probe_rs],
       [friendly |-> TRUE, name |-> "esp-config", version |-> v.esp_config_version,
        min |-> EspConfigMinimum, required |-> required_probe_rs] >>

\* The last row of the report, when it is pushed.
Footer == [emoji |-> "", name |-> "For more details", kind |-> "footer", found |-> <<0, 0, 0>>]

\* The versions a tool is found with: none, or one around the minimums.
FoundVersions ==
    {NoVersion} \cup {SomeVersion(v) : v \in { <<0, 4, 9>>, <<0, 5, 0>>, <<0, 31, 0>>,
                                               <<1, 87, 5>>, <<1, 88, 0>>, <<3, 2, 9>>,
                                               <<3, 3, 0>> }}

\* The MSRV of the tests of check.rs.
Msrv == <<1, 88, 0>>

----------------------------------------------------------------------------
(* The templates the model is run on.                                       *)

OptionCall(name) == <<OptionOpen, name, OptionClose>>
IfLine(marker, cond) == <<marker, "IF", " ">> \o cond
ElifLine(marker, cond) == <<marker, "ELIF", " ">> \o cond
ElseLine(marker) == <<marker, "ELSE">>
EndifLine(marker) == <<marker, "ENDIF">>
IncludeFileLine(marker, cond) == <<marker, "INCLUDEFILE", " ">> \o cond
ReplaceLine(marker, what) == <<marker, "REPLACE", " ">> \o what
TextLine(text) == <<" ", " ">> \o text

\* The option names the conditions of the templates use: the k-th condition
\* of a chain and the condition at nesting depth k ask for the k-th name.
FileOptions == <<"opt1", "opt2", "opt3", "opt4">>

RECURSIVE Concat(_)
Concat(seqs) == IF seqs = <<>> THEN <<>> ELSE Head(seqs) \o Concat(Tail(seqs))

\* head / IF c1 / b1 / ELIF c2 / b2 / ... / [ELSE / else] / ENDIF / tail
Chain(branches, with_else) ==
    <<TextLine(<<"head">>)>>
    \o Concat([k \in 1..branches |->
                  << IF k = 1 THEN IfLine("#", OptionCall(FileOptions[k]))
                              ELSE ElifLine("#", OptionCall(FileOptions[k])),
                     TextLine(<<"b", FileOptions[k]>>) >>])
    \o (IF with_else THEN <<ElseLine("#"), TextLine(<<"else">>)>> ELSE <<>>)
    \o <<EndifLine("#"), TextLine(<<"tail">>)>>

Chains(n) == {Chain(branches, with_else) : branches \in 1..n, with_else \in BOOLEAN}

\* The well-nested bodies with IF blocks nested up to `depth` deep, the
\* outermost block at nesting depth `level`: a line of text, or a block
\* between two lines of text, the block with or without an ELSE part.
RECURSIVE Bodies(_, _)
Bodies(level, depth) ==
    IF depth = 0 THEN {<<TextLine(<<"x">>)>>}
    ELSE LET inner == Bodies(level + 1, depth - 1)
             else_parts == {<<>>} \cup {<<ElseLine("#")>> \o b : b \in inner}
         IN {<<TextLine(<<"x">>)>>}
            \cup {<<TextLine(<<"x">>), IfLine("#", OptionCall(FileOptions[level]))>>
                     \o b \o e \o <<EndifLine("#"), TextLine(<<"x">>)>> :
                   b \in inner, e \in else_parts}

\* The lines the free templates are put together from.
FreeLines ==
    { IfLine("#", OptionCall("opt1")),
      ElifLine("//", OptionCall("opt2")),
      ElseLine("#"),
      EndifLine("//"),
      TextLine(<<"x">>),
      IncludeFileLine("//", <<"opt1">>),
      IncludeFileLine("#", <<"!", "opt1">>),
      IncludeFileLine("//", <<"opt2", " ", "lib.rs">>),
      IncludeFileLine("#", <<"!", "opt2", " ", "bin.rs">>),
      ReplaceLine("#", <<"x", " ", "project-name">>),
      <<" ", "#", "+", "x">>,
      RustfmtSkip,
      IfLine("//", <<"oops">>) }

FreeTemplates(n) == UNION {[1..k -> FreeLines] : k \in 1..n}

Templates == Chains(MaxBranches) \cup Bodies(1, MaxDepth) \cup FreeTemplates(MaxLines)

\* The option names a template mentions.
NamesOf(text) ==
    {FileOptions[k] : k \in {j \in 1..Len(FileOptions) :
        \E l \in 1..Len(text) : \E c \in 1..Len(text[l]) : text[l][c] = FileOptions[j]}}

\* The variable tables: main.rs:370-380 fills in the project name first.
VariableTables ==
    { <<>>, <<[key |-> <<"project-name">>, value |-> <<"demo">>]>> }

\* Only a REPLACE directive reads the table.
TablesFor(text) ==
    IF \E l \in 1..Len(text) : contains(text[l], <<"REPLACE">>) THEN VariableTables
    ELSE {<<>>}

\* The lines the templates of text are put together from: a block on one
\* condition, two replace directives (the second with a pair naming no
\* variable), two lines of text (white space around the first, a marker
\* inside the second), the empty line and the two spellings of IGNOREFILE.
TextLines ==
    { IfLine("#", OptionCall("opt1")),
      EndifLine("//"),
      ReplaceLine("//", <<"x", " ", "project-name">>),
      ReplaceLine("#", <<"y", " ", "mcu", " ", "&&", " ", "z", " ", "missing">>),
      <<" ", " ", "x", " ", "y", " ">>,
      <<"x", " ", "#", "IF", " ", "y">>,
      <<>>,
      <<"//", "IGNOREFILE">>,
      <<"#", "IGNOREFILE">> }

TextTemplates(n) == UNION {[1..k -> TextLines] : k \in 1..n}

\* The variable tables of the templates of text: empty, or the first two
\* entries of main.rs:370-372.
TextTables ==
    { <<>>,
      << [key |-> <<"project-name">>, value |-> <<"demo">>],
         [key |-> <<"mcu">>, value |-> <<"esp32">>] >> }

\* The path the caller passes in (main.rs:386).
OrigPath == <<"main.rs">>

\* The locals of process_file as its loop starts (main.rs:440-444).
Entry ==
    /\ res = <<>>
    /\ replace = <<>>
    /\ include = <<TRUE>>
    /\ first_line = TRUE
    /\ pc = 1
    /\ ret = "running"
    /\ emitted = <<>>

\* No file is being processed.
NoFile ==
    /\ contents = <<>>
    /\ opts = {}
    /\ variables = <<>>
    /\ file_path = OrigPath
    /\ Entry

\* No configuration is being edited.
NoConfiguration ==
    /\ chip = "esp32"
    /\ options = <<>>
    /\ flat_options = <<>>
    /\ selected = <<>>
    /\ path = <<>>
    /\ panicked = FALSE

\* No toolchain scan has been started.
NoScan ==
    /\ scan = "none"
    /\ rx = <<>>
    /\ cached = NoList
    /\ answers = <<>>

\* create_check_results is not being run.
NoCheck ==
    /\ probe_rs_required = FALSE
    /\ versions = <<>>
    /\ message = <<>>
    /\ requirements_unsatisfied = FALSE
    /\ step = 0

\* No key was pressed yet.  A key is remembered with the editor as it found it.
NoKey == [code |-> "", confirm_quit |-> FALSE, state |-> <<>>, path |-> <<>>,
          selected |-> <<>>]

\* The editor is not open.
NoApp ==
    /\ confirm_quit = FALSE
    /\ state = <<>>
    /\ run = [kind |-> "none", selected |-> <<>>]
    /\ pressed = NoKey

NoCall == [op |-> "none", arg |-> "", before |-> <<>>]

\* Every entry of the path is the position of a category of its level.
RECURSIVE PathLeadsThroughCategories(_, _)
PathLeadsThroughCategories(items, p) ==
    \/ p = <<>>
    \/ /\ Head(p) \in 1..Len(items)
       /\ is_category(items[Head(p)])
       /\ PathLeadsThroughCategories(items[Head(p)].options, Tail(p))

\* The resolver's and the editor's state: ActiveConfiguration and Repository.
TypeOK ==
    /\ chip \in Chips
    /\ flat_options = flatten_options(options)
    /\ \A i \in 1..Len(flat_options) : ~is_category(flat_options[i])
    /\ selected \in Seq(1..Len(flat_options))
    /\ Len(selected) <= MaxSelected
    /\ PathLeadsThroughCategories(options, path)
    /\ panicked \in BOOLEAN

\* ActiveConfiguration and Repository after construction over the catalog
\* `tree`: nothing selected.
Constructed(tree) ==
    /\ options = tree
    /\ flat_options = flatten_options(tree)
    /\ chip \in Chips
    /\ selected = <<>>
    /\ path = <<>>
    /\ panicked = FALSE
    /\ last = NoCall

\* The state after construction over the catalog `tree`: nothing selected.
InitOver(tree) ==
    /\ Constructed(tree)
    /\ NoFile
    /\ NoScan
    /\ NoCheck
    /\ NoApp

FlatCatalogs(n) ==
    {FlatCatalog(ps, p) : ps \in Placements(NameSet, n), p \in Profiles}

TreeCatalogs(n) ==
    UNION {{TreeCatalog(shape, ps, p) :
               ps \in Placements(NameSet \cup CategoriesOf(shape), n), p \in Profiles} :
           shape \in TreeShapes}

\* The catalogs the key loop is run on: those with categories whose items
\* declare no requirement.
RunCatalogs == TreeCatalogs(0)

----------------------------------------------------------------------------
(* Operations.                                                              *)

\* ActiveConfiguration::select(option): find_option(..).unwrap(), then select_idx
Select(option) ==
    /\ ~panicked
    /\ LET index == find_option(option)
       IN IF index = 0
            THEN /\ panicked' = TRUE
                 /\ selected' = selected
            ELSE /\ Len(select_idx(selected, index)) <= MaxSelected
                 /\ selected' = select_idx(selected, index)
                 /\ panicked' = FALSE
    /\ last' = [op |-> "select", arg |-> option, before |-> selected]
    /\ UNCHANGED <<chip, options, flat_options, path>>
    /\ UNCHANGED fvars
    /\ UNCHANGED tvars
    /\ UNCHANGED cvars
    /\ UNCHANGED avars

\* App::run, keys l / space / Right / Enter with the cursor on `index`:
\* toggle_current on an option, enter_group on a category.  On an empty level
\* the cursor is 0 and is_option indexes out of bounds.
Enter(index) ==
    /\ ~panicked
    /\ IF current_level(path) = <<>>
         THEN /\ index = 1
              /\ panicked' = TRUE
              /\ UNCHANGED <<selected, path>>
              /\ last' = [op |-> "enter", arg |-> "", before |-> selected]
         ELSE /\ index \in 1..Len(current_level(path))
              /\ IF is_option(path, index)
                   THEN /\ Len(toggle_current(selected, path, index)) <= MaxSelected
                        /\ selected' = toggle_current(selected, path, index)
                        /\ last' = [op |-> "toggle",
                                    arg |-> current_level(path)[index].name,
                                    before |-> selected]
                        /\ UNCHANGED <<path, panicked>>
                   ELSE /\ path' = Append(path, index)
                        /\ last' = [op |-> "enter_group",
                                    arg |-> current_level(path)[index].name,
                                    before |-> selected]
                        /\ UNCHANGED <<selected, panicked>>
    /\ UNCHANGED <<chip, options, flat_options>>
    /\ UNCHANGED fvars
    /\ UNCHANGED tvars
    /\ UNCHANGED cvars
    /\ UNCHANGED avars

\* App::run, keys h / Left: Repository::up
Up ==
    /\ ~panicked
    /\ path # <<>>
    /\ path' = SubSeq(path, 1, Len(path) - 1)
    /\ last' = [op |-> "up", arg |-> "", before |-> selected]
    /\ UNCHANGED <<chip, options, flat_options, selected, panicked>>
    /\ UNCHANGED fvars
    /\ UNCHANGED tvars
    /\ UNCHANGED cvars
    /\ UNCHANGED avars

\* App::run: one turn of its loop with a key press.  The turn draws first:
\* on a level without items help_paragraph and render_item compute
\* len() - 1 and index the level (tui.rs:433-436, 403-407), which panics.
Key(code) ==
    /\ ~panicked
    /\ run = Running
    /\ IF current_level(path) = <<>>
         THEN /\ panicked' = TRUE
              /\ code = "x"
              /\ UNCHANGED <<selected, path, last, confirm_quit, state, run, pressed>>
         ELSE LET a == key_press([selected |-> selected, path |-> path, state |-> state,
                                  confirm_quit |-> confirm_quit, run |-> run], code)
              IN /\ Len(a.selected) <= MaxSelected
                 /\ selected' = a.selected
                 /\ path' = a.path
                 /\ state' = a.state
                 /\ confirm_quit' = a.confirm_quit
                 /\ run' = a.run
                 /\ pressed' = [code |-> code, confirm_quit |-> confirm_quit,
                                state |-> state, path |-> path, selected |-> selected]
                 /\ last' = [op |-> "key", arg |-> code, before |-> selected]
                 /\ UNCHANGED panicked
    /\ UNCHANGED <<chip, options, flat_options>>
    /\ UNCHANGED fvars
    /\ UNCHANGED tvars
    /\ UNCHANGED cvars

\* process_file: one turn of the loop, on the line `pc`.  A return or a
\* panic inside the turn ends the call.
Line ==
    /\ ret = "running"
    /\ pc <= Len(contents)
    /\ LET s == process_line([res |-> res, replace |-> replace, include |-> include,
                              first_line |-> first_line, file_path |-> file_path,
                              ret |-> ret],
                             contents[pc])
       IN /\ res' = s.res
          /\ replace' = s.replace
          /\ include' = s.include
          /\ first_line' = s.first_line
          /\ file_path' = s.file_path
          /\ ret' = s.ret
          /\ emitted' = IF s.res # res THEN Append(emitted, pc) ELSE emitted
    /\ pc' = pc + 1
    /\ UNCHANGED <<contents, opts, variables>>
    /\ UNCHANGED rvars
    /\ UNCHANGED tvars
    /\ UNCHANGED cvars
    /\ UNCHANGED avars

\* process_file: the loop is over, Some(res) is returned (main.rs:583).
Return ==
    /\ ret = "running"
    /\ pc > Len(contents)
    /\ ret' = "Some"
    /\ UNCHANGED <<contents, opts, variables, file_path, res, replace, include,
                   first_line, pc, emitted>>
    /\ UNCHANGED rvars
    /\ UNCHANGED tvars
    /\ UNCHANGED cvars
    /\ UNCHANGED avars

\* The scan thread: find_toolchains is back with `result`, tx.send(result)
\* (toolchain.rs:49-50).  The channel is unbounded, send does not wait.
ScanSend(result) ==
    /\ scan = "find"
    /\ rx' = Append(rx, result)
    /\ scan' = "sent"
    /\ UNCHANGED <<cached, answers>>
    /\ UNCHANGED rvars
    /\ UNCHANGED fvars
    /\ UNCHANGED cvars
    /\ UNCHANGED avars

\* The scan thread: the closure returns and drops tx (toolchain.rs:51).
ScanExit ==
    /\ scan = "sent"
    /\ scan' = "exited"
    /\ UNCHANGED <<rx, cached, answers>>
    /\ UNCHANGED rvars
    /\ UNCHANGED fvars
    /\ UNCHANGED cvars
    /\ UNCHANGED avars

\* The scan thread: a panic inside find_toolchains unwinds the closure, tx
\* is dropped and nothing was sent.
ScanPanic ==
    /\ scan = "find"
    /\ scan' = "exited"
    /\ UNCHANGED <<rx, cached, answers>>
    /\ UNCHANGED rvars
    /\ UNCHANGED fvars
    /\ UNCHANGED cvars
    /\ UNCHANGED avars

\* The main thread: one call of try_get_toolchain_list (toolchain.rs:19-38).
\* The history keeps what the call found and what it returned.
TryGet ==
    /\ scan # "none"
    /\ Len(answers) < MaxCalls
    /\ LET t == try_get_toolchain_list(cached, rx, scan # "exited")
       IN /\ cached' = t.cached
          /\ rx' = t.rx
          /\ answers' = Append(answers, [ret |-> t.ret, polled |-> t.polled,
                                         cached |-> cached.some, empty |-> rx = <<>>,
                                         alive |-> scan # "exited"])
    /\ UNCHANGED scan
    /\ UNCHANGED rvars
    /\ UNCHANGED fvars
    /\ UNCHANGED cvars
    /\ UNCHANGED avars

\* create_check_results: one of its four format_result calls, the bool
\* or-ed into requirements_unsatisfied (check.rs:189-229).
FormatResult ==
    /\ step \in 1..4
    /\ LET call == ToolCalls(probe_rs_required, versions)[step]
           r == format_result(call.friendly, call.name,
                              check_version(call.version, call.min),
                              call.required, message)
       IN /\ message' = r.message
          /\ requirements_unsatisfied' = (requirements_unsatisfied \/ r.unsatisfied)
    /\ step' = step + 1
    /\ UNCHANGED <<probe_rs_required, versions>>
    /\ UNCHANGED rvars
    /\ UNCHANGED fvars
    /\ UNCHANGED tvars
    /\ UNCHANGED avars

\* create_check_results: the footer, and the return (check.rs:232-236).
ReturnReport ==
    /\ step = 5
    /\ message' = IF requirements_unsatisfied THEN Append(message, Footer) ELSE message
    /\ step' = 6
    /\ UNCHANGED <<probe_rs_required, versions, requirements_unsatisfied>>
    /\ UNCHANGED rvars
    /\ UNCHANGED fvars
    /\ UNCHANGED tvars
    /\ UNCHANGED avars

Init == \E tree \in FlatCatalogs(MaxTokens) : InitOver(tree)

Next == \E option \in NameSet : Select(option)

Spec == Init /\ [][Next]_vars

\* The cursor positions of the current level (position 1 on an empty level).
Cursor == 1..(IF current_level(path) = <<>> THEN 1 ELSE Len(current_level(path)))

\* The interactive editor: toggles and navigation over a catalog with categories.
InitTui == \E tree \in TreeCatalogs(MaxTuiTokens) : InitOver(tree)

NextTui == (\E index \in Cursor : Enter(index)) \/ Up

SpecTui == InitTui /\ [][NextTui]_vars

\* Direct select calls and interactive toggles, mixed, over a flat catalog.
InitEdit == \E tree \in FlatCatalogs(MaxTuiTokens) : InitOver(tree)

NextEdit == (\E option \in NameSet : Select(option)) \/ (\E index \in Cursor : Enter(index))

SpecEdit == InitEdit /\ [][NextEdit]_vars

\* process_file on a template, a set of selected options and a variable table.
InitFile ==
    /\ contents \in Templates
    /\ opts \in SUBSET {<<name>> : name \in NamesOf(contents)}
    /\ variables \in TablesFor(contents)
    /\ file_path = OrigPath
    /\ Entry
    /\ NoConfiguration
    /\ NoScan
    /\ NoCheck
    /\ NoApp
    /\ last = NoCall

NextFile == Line \/ Return

SpecFile == InitFile /\ [][NextFile]_vars

\* process_file on a template of text, replace directives and blocks.
InitText ==
    /\ contents \in TextTemplates(MaxText)
    /\ opts \in SUBSET {<<FileOptions[1]>>}
    /\ variables \in TextTables
    /\ file_path = OrigPath
    /\ Entry
    /\ NoConfiguration
    /\ NoScan
    /\ NoCheck
    /\ NoApp
    /\ last = NoCall

SpecText == InitText /\ [][NextFile]_vars

\* start_toolchain_scan has returned: the channel is made, the thread is
\* spawned and about to run find_toolchains, nothing is cached
\* (toolchain.rs:46-54).
InitScan ==
    /\ scan = "find"
    /\ rx = <<>>
    /\ cached = NoList
    /\ answers = <<>>
    /\ NoFile
    /\ NoConfiguration
    /\ NoCheck
    /\ NoApp
    /\ last = NoCall

NextScan == (\E result \in ScanResults : ScanSend(result)) \/ ScanExit \/ ScanPanic \/ TryGet

SpecScan == InitScan /\ [][NextScan]_vars

\* create_check_results entered: "Checking installed versions" is the
\* heading, no row is pushed yet (check.rs:185-189).
InitCheck ==
    /\ probe_rs_required \in BOOLEAN
    /\ versions \in [msrv : {Msrv}, rust_version : FoundVersions,
                      espflash_version : FoundVersions, probers_version : FoundVersions,
                      esp_config_version : FoundVersions]
    /\ message = <<>>
    /\ requirements_unsatisfied = FALSE
    /\ step = 1
    /\ NoFile
    /\ NoConfiguration
    /\ NoScan
    /\ NoApp
    /\ last = NoCall

NextCheck == FormatResult \/ ReturnReport

SpecCheck == InitCheck /\ [][NextCheck]_vars

\* The editor opened on a catalog: App::new, one menu with its first row
\* selected and no confirmation pending (tui.rs:225-241), run entered.
InitRun ==
    /\ \E tree \in RunCatalogs : Constructed(tree)
    /\ confirm_quit = FALSE
    /\ state = <<1>>
    /\ run = Running
    /\ pressed = NoKey
    /\ NoFile
    /\ NoScan
    /\ NoCheck

NextRun == \E code \in KeyCodes : Key(code)

SpecRun == InitRun /\ [][NextRun]_vars

----------------------------------------------------------------------------
(* The claims.  `last` tells which call led to the state and what `selected` *)
(* was before it.                                                            *)

\* The index of the option of that name, whatever its chips.
OptIdx(name) == CHOOSE i \in 1..Len(flat_options) : flat_options[i].name = name

GroupOf(i) == flat_options[i].selection_group

\* The positions of `sel` that hold a member of group g.
MembersIn(sel, g) == {k \in 1..Len(sel) : GroupOf(sel[k]) = g}

\* Some option selected in `sel` has the name of option y in its requires.
NamedDirectly(sel, y) ==
    \E k \in 1..Len(sel) :
        \E r \in 1..Len(flat_options[sel[k]].requires) :
            flat_options[sel[k]].requires[r] = Pos(flat_options[y].name)

\* Some option selected in `sel` has the group name g in its requires.
GroupRequired(sel, g) ==
    \E k \in 1..Len(sel) :
        \E r \in 1..Len(flat_options[sel[k]].requires) :
            flat_options[sel[k]].requires[r] = Pos(g)

Declares(i, token) ==
    \E r \in 1..Len(flat_options[i].requires) : flat_options[i].requires[r] = token

\* C1: after any sequence of select calls from the empty selection, no
\* non-empty selection group has more than one selected member.
C1_AtMostOnePerGroup ==
    \A g \in GroupNames : Cardinality(MembersIn(selected, g)) <= 1

\* A select that replaced the selected member of a group by another member.
C1_Witness ==
    /\ last.op = "select" /\ ~panicked
    /\ GroupOf(OptIdx(last.arg)) # NoGroup
    /\ \E k \in MembersIn(last.before, GroupOf(OptIdx(last.arg))) :
          last.before[k] # OptIdx(last.arg)
    /\ selected # last.before
    /\ selected[Len(selected)] = OptIdx(last.arg)

\* C3: select(x), x in the non-empty group G, while a selected member of G is
\* named directly in the requires of a selected option, leaves `selected`
\* exactly as it was.
C3_Pre(sel, x) ==
    /\ GroupOf(OptIdx(x)) # NoGroup
    /\ \E k \in MembersIn(sel, GroupOf(OptIdx(x))) : NamedDirectly(sel, sel[k])

C3_BlockedSelectAborts ==
    (last.op = "select" /\ C3_Pre(last.before, last.arg)) => selected = last.before

\* Such a select of an active, unselected x: only deselect_group stopped it.
C3_Witness ==
    /\ last.op = "select" /\ ~panicked
    /\ C3_Pre(last.before, last.arg)
    /\ ~is_selected(last.before, last.arg)
    /\ is_option_active(last.before, flat_options[OptIdx(last.arg)])

\* C4: select(x) of an active unselected member x of G, while no selected
\* option names the selected member of G directly, removes that member, keeps
\* every other entry in its order and appends x last.
C4_Pre(sel, x) ==
    /\ find_option(x) # 0
    /\ GroupOf(OptIdx(x)) # NoGroup
    /\ ~is_selected(sel, x)
    /\ is_option_active(sel, flat_options[OptIdx(x)])
    /\ \A k \in MembersIn(sel, GroupOf(OptIdx(x))) : ~NamedDirectly(sel, sel[k])

C4_Swapped(before, after, x) ==
    LET G == GroupOf(OptIdx(x))
        others == {k \in 1..Len(before) : GroupOf(before[k]) # G}
    IN /\ Len(after) = Cardinality(others) + 1
       /\ after[Len(after)] = OptIdx(x)
       /\ \A k \in 1..(Len(after) - 1) : GroupOf(after[k]) # G
       \* the k-th entry kept is the k-th entry of `before` outside G
       /\ \A k \in others :
             after[Cardinality({j \in others : j <= k})] = before[k]

C4_GroupSwapSucceeds ==
    (last.op = "select" /\ C4_Pre(last.before, last.arg))
        => C4_Swapped(last.before, selected, last.arg)

\* A swap inside G made while a selected option requires G by its group name.
C4_Witness ==
    /\ last.op = "select" /\ ~panicked
    /\ C4_Pre(last.before, last.arg)
    /\ MembersIn(last.before, GroupOf(OptIdx(last.arg))) # {}
    /\ \E k \in 1..Len(last.before) :
          /\ GroupOf(last.before[k]) # GroupOf(OptIdx(last.arg))
          /\ Declares(last.before[k], Pos(GroupOf(OptIdx(last.arg))))

\* C5: select(x) leaves `selected` as it was whenever is_active(x) is false.
C5_InactiveSelectIsNoOp ==
    (last.op = "select" /\ ~is_active(last.before, flat_options[OptIdx(last.arg)]))
        => selected = last.before

\* A select of an inactive option that returned, on a non-empty selection.
C5_Witness ==
    /\ last.op = "select" /\ ~panicked
    /\ ~is_active(last.before, flat_options[OptIdx(last.arg)])
    /\ last.before # <<>>

\* C6: select(x) of a selected x that cannot be disabled leaves x selected.
C6_LockedStaysSelected ==
    (/\ last.op = "select"
     /\ is_selected(last.before, last.arg)
     /\ ~can_be_disabled(last.before, last.arg))
        => is_selected(selected, last.arg)

\* Such a select of a group member locked by another option: deselect_group
\* took it out of the list and select_idx pushed it back.
C6_Witness ==
    /\ last.op = "select" /\ ~panicked
    /\ is_selected(last.before, last.arg)
    /\ ~can_be_disabled(last.before, last.arg)
    /\ \E k \in 1..Len(last.before) :
          /\ last.before[k] # OptIdx(last.arg)
          /\ Declares(last.before[k], Pos(GroupOf(OptIdx(last.arg))))
    /\ selected # last.before

\* C7 (as claimed): can_be_disabled is false iff some OTHER selected option
\* requires the option by name or, without the allow-group-swap flag, by its
\* group; the option's own requires never lock it.
C7_LockedOnlyByOthers ==
    \A i \in 1..Len(flat_options), flag \in BOOLEAN :
        can_be_disabled_impl(selected, i, flag)
          = ~\E k \in 1..Len(selected) :
                /\ selected[k] # i
                /\ \/ Declares(selected[k], Pos(flat_options[i].name))
                   \/ (~flag /\ Declares(selected[k], Pos(GroupOf(i))))

\* C9: if a declares !b then a is inactive while b is selected, and b is
\* inactive while a is selected.
C9_ExclusionBothWays ==
    \A a, b \in 1..Len(flat_options) :
        Declares(a, Neg(flat_options[b].name)) =>
            /\ is_selected(selected, flat_options[b].name)
                  => ~is_option_active(selected, flat_options[a])
            /\ is_selected(selected, flat_options[a].name)
                  => ~is_option_active(selected, flat_options[b])

\* a, in no group, is selected and declares !b; b declares nothing, fits the
\* chip and is inactive.
C9_Witness ==
    \E a, b \in 1..Len(flat_options) :
        /\ a # b
        /\ GroupOf(a) = NoGroup
        /\ Declares(a, Neg(flat_options[b].name))
        /\ flat_options[b].requires = <<>>
        /\ flat_options[b].chips = {}
        /\ is_selected(selected, flat_options[a].name)
        /\ ~is_option_active(selected, flat_options[b])

\* C10 (as claimed): !X is satisfied iff no option named X is selected and no
\* selected option belongs to group X; an option requiring !G is inactive
\* whenever a member of group G is selected.
C10_NegativeIsInverse ==
    /\ \A i \in 1..Len(flat_options), X \in Keys :
          Declares(i, Neg(X)) =>
             requirements_met(selected, <<Neg(X)>>)
               = (~is_selected(selected, X) /\ ~is_group_selected(selected, X))
    /\ \A i \in 1..Len(flat_options), G \in GroupNames :
          (Declares(i, Neg(G)) /\ is_group_selected(selected, G))
             => ~is_option_active(selected, flat_options[i])

\* C2 (as claimed): after any sequence of interactive toggles every selected
\* option is active under the current selection and no group has two
\* selected members.
C2_NeverInvalid ==
    /\ \A k \in 1..Len(selected) : is_option_active(selected, flat_options[selected[k]])
    /\ \A g \in GroupNames : Cardinality(MembersIn(selected, g)) <= 1

\* C8: after any sequence of select calls and gated deselections, no selected
\* option declares !b for another selected option b.
C8_NoSelectedExclusion ==
    \A ka, kb \in 1..Len(selected) :
        selected[ka] # selected[kb]
           => ~Declares(selected[ka], Neg(flat_options[selected[kb]].name))

\* a, in no group, is selected and declares !b, and the last call tried to
\* select b, which fits the chip and requires nothing.
C8_Witness ==
    /\ last.op \in {"select", "toggle"} /\ ~panicked
    /\ flat_options[OptIdx(last.arg)].chips = {}
    /\ flat_options[OptIdx(last.arg)].requires = <<>>
    /\ ~is_selected(last.before, last.arg)
    /\ \E k \in 1..Len(selected) :
          /\ selected[k] # OptIdx(last.arg)
          /\ GroupOf(selected[k]) = NoGroup
          /\ Declares(selected[k], Neg(last.arg))

\* Some entry of `sel` is an option named X or a member of the group X.
C11_Holds(sel, X) ==
    \E k \in 1..Len(sel) :
        \/ flat_options[sel[k]].name = X
        \/ flat_options[sel[k]].selection_group = X

\* C11: a positive token X is satisfied iff an option named X is selected or
\* a selected option is in the group X; an option declaring an unsatisfied
\* positive token is inactive, and select on it leaves `selected` as it was.
C11_PositiveToken ==
    /\ \A X \in Keys :
          requirements_met(selected, <<Pos(X)>>) = C11_Holds(selected, X)
    /\ \A i \in 1..Len(flat_options), X \in Keys :
          (Declares(i, Pos(X)) /\ ~C11_Holds(selected, X))
             => ~is_option_active(selected, flat_options[i])
    /\ (/\ last.op = "select"
        /\ \E X \in Keys : /\ Declares(OptIdx(last.arg), Pos(X))
                            /\ ~C11_Holds(last.before, X))
          => selected = last.before

\* A select of an option that fits the chip and declares two positive tokens:
\* a group name, satisfied by a selected member only, and one unsatisfied.
C11_Witness ==
    /\ last.op = "select" /\ ~panicked
    /\ find_option(last.arg) # 0
    /\ selected = last.before
    /\ \E g \in GroupNames :
          /\ Declares(OptIdx(last.arg), Pos(g))
          /\ MembersIn(last.before, g) # {}
    /\ \E X \in Keys :
          /\ Declares(OptIdx(last.arg), Pos(X))
          /\ ~C11_Holds(last.before, X)

\* The categories of a tree, at every depth.
RECURSIVE CategoriesIn(_)
CategoriesIn(items) ==
    IF items = <<>> THEN {}
    ELSE (IF is_category(Head(items))
            THEN {Head(items)} \cup CategoriesIn(Head(items).options)
            ELSE {})
         \cup CategoriesIn(Tail(items))

\* C12: a category is active iff its own requires are met and one of its
\* items is active (a nested category counting by its own activity); a
\* category without options, or with no active option anywhere below it, is
\* inactive whatever its requires.
C12_CategoryActivity ==
    \A c \in CategoriesIn(options) :
        /\ is_active(selected, c)
             = (/\ requirements_met(selected, c.requires)
                /\ \E s \in 1..Len(c.options) :
                      IF is_category(c.options[s])
                        THEN is_active(selected, c.options[s])
                        ELSE is_option_active(selected, c.options[s]))
        /\ c.options = <<>> => ~is_active(selected, c)
        /\ (\A s \in 1..Len(flatten_options(c.options)) :
               ~is_option_active(selected, flatten_options(c.options)[s]))
              => ~is_active(selected, c)

\* After a toggle: a category whose requires are met is inactive although an
\* option below it is active, because the nested category holding that option
\* is inactive.
C12_Witness ==
    /\ last.op = "toggle" /\ selected # <<>>
    /\ \E c \in CategoriesIn(options) :
          /\ requirements_met(selected, c.requires)
          /\ ~is_active(selected, c)
          /\ \E s \in 1..Len(c.options) :
                /\ is_category(c.options[s])
                /\ ~is_active(selected, c.options[s])
                /\ \E t \in 1..Len(c.options[s].options) :
                      /\ ~is_category(c.options[s].options[t])
                      /\ is_option_active(selected, c.options[s].options[t])

\* `after` is `before` without its entry for the option x, in any order.
C13_Removed(before, after, x) ==
    /\ ~is_selected(after, x)
    /\ Len(after) = Len(before) - 1
    /\ \A k \in 1..Len(before) :
          before[k] # OptIdx(x) => \E j \in 1..Len(after) : after[j] = before[k]

\* C13 (as claimed): a toggle of a selected option that can be disabled
\* removes it; of a selected locked option changes nothing; of an unselected
\* active option selects it through select; of an inactive option, or in an
\* inactive level, changes nothing.
C13_FourOutcomes ==
    last.op = "toggle" =>
        LET x == last.arg
            before == last.before
            active == /\ current_level_is_active(before, path)
                      /\ is_option_active(before, flat_options[OptIdx(x)])
        IN /\ (is_selected(before, x) /\ can_be_disabled(before, x))
                 => C13_Removed(before, selected, x)
           /\ (is_selected(before, x) /\ ~can_be_disabled(before, x))
                 => selected = before
           /\ (~is_selected(before, x) /\ active)
                 => selected = select_idx(before, find_option(x))
           /\ ~active => selected = before

\* C14 (as claimed): select of an option that is inactive for any reason, its
\* chips list not holding the configured chip included, returns without a
\* fatal abort and leaves `selected` as it was.
C14_InactiveSelectIsSilent ==
    (last.op = "select" /\ ~is_active(last.before, flat_options[OptIdx(last.arg)]))
        => (~panicked /\ selected = last.before)

ToSet(seq) == {seq[k] : k \in 1..Len(seq)}

\* The names of the selected options that declare the token.
SelectedDeclaring(sel, token) ==
    {flat_options[sel[k]].name : k \in {j \in 1..Len(sel) : Declares(sel[j], token)}}

\* C15 (as claimed): of collect_relationships(item), requires holds the item's
\* positive tokens, required_by the selected options that positively name the
\* item, disabled_by the selected options that declare !item together with
\* the item's own negative requirements that are satisfied; an option that
\* requires another is not in its own required_by.
C15_RelationshipsAsClaimed ==
    \A i \in 1..Len(flat_options) :
        LET rel == collect_relationships(selected, flat_options[i])
            name == flat_options[i].name
        IN /\ ToSet(rel.requires) = {X \in Keys : Declares(i, Pos(X))}
           /\ ToSet(rel.required_by) = SelectedDeclaring(selected, Pos(name))
           /\ ToSet(rel.disabled_by)
                = SelectedDeclaring(selected, Neg(name))
                  \cup {d \in Keys : /\ Declares(i, Neg(d))
                                      /\ requirements_met(selected, <<Neg(d)>>)}
           /\ (\E X \in Keys : Declares(i, Pos(X))) => name \notin ToSet(rel.required_by)

\* C15 (amended): as above, but of the item's own negative requirements !d
\* disabled_by holds the names d of those whose option d is selected.
C15_Relationships ==
    \A i \in 1..Len(flat_options) :
        LET rel == collect_relationships(selected, flat_options[i])
            name == flat_options[i].name
        IN /\ ToSet(rel.requires) = {X \in Keys : Declares(i, Pos(X))}
           /\ ToSet(rel.required_by) = SelectedDeclaring(selected, Pos(name))
           /\ ToSet(rel.disabled_by)
                = SelectedDeclaring(selected, Neg(name))
                  \cup {d \in Keys : /\ Declares(i, Neg(d))
                                      /\ \E k \in 1..Len(selected) :
                                            flat_options[selected[k]].name = d}
           /\ (\E X \in Keys : Declares(i, Pos(X))) => name \notin ToSet(rel.required_by)

\* After a select or a toggle an option is disabled by nothing but its own
\* negative requirement, on an option that is selected.
C15_Witness ==
    /\ last.op \in {"select", "toggle"} /\ ~panicked
    /\ \E j \in 1..Len(flat_options) :
          /\ SelectedDeclaring(selected, Neg(flat_options[j].name)) = {}
          /\ collect_relationships(selected, flat_options[j]).disabled_by
                = <<last.arg>>
          /\ is_selected(selected, last.arg)

\* The directive a line is, by its leading trimmed text.
Keyword(line, word) ==
    starts_with(trim(line), <<"#", word>>) \/ starts_with(trim(line), <<"//", word>>)

IsIf(line) == Keyword(line, "IF") /\ starts_with(SubSeq(trim(line), 3, 3), <<" ">>)
IsElif(line) == Keyword(line, "ELIF") /\ starts_with(SubSeq(trim(line), 3, 3), <<" ">>)
IsElse(line) == Keyword(line, "ELSE")
IsEndif(line) == Keyword(line, "ENDIF")
IsIncludeFile(line) ==
    Keyword(line, "INCLUDEFILE") /\ starts_with(SubSeq(trim(line), 3, 3), <<" ">>)

\* A line of plain text: no marker in front, not the dropped annotation.
IsPlain(line) ==
    /\ trim(line) # <<>>
    /\ Head(trim(line)) \notin {"#", "//"}
    /\ trim(line) # RustfmtSkip

\* The value of the condition of an IF or ELIF line.
Truth(line) == eval(SubSeq(trim(line), 4, Len(trim(line)))).value

\* The conditional blocks open after a line, given those open before it,
\* outermost first.  A frame tells whether the condition of its current
\* branch holds (an ELSE branch has none, it counts as holding), whether an
\* earlier branch of its chain held, and whether the ELSE has been passed.
\* An ELIF, ELSE or ENDIF without an open block opens and closes nothing.
FramesAfter(before, line) ==
    LET top == before[Len(before)]
        under == SubSeq(before, 1, Len(before) - 1)
    IN IF IsIf(line)
         THEN Append(before, [branch_active |-> Truth(line),
                              any_taken |-> FALSE, in_else |-> FALSE])
       ELSE IF before = <<>> THEN before
       ELSE IF IsElif(line)
         THEN Append(under, [branch_active |-> Truth(line),
                             any_taken |-> top.any_taken \/ top.branch_active,
                             in_else |-> top.in_else])
       ELSE IF IsElse(line)
         THEN Append(under, [branch_active |-> TRUE,
                             any_taken |-> top.any_taken \/ top.branch_active,
                             in_else |-> TRUE])
       ELSE IF IsEndif(line) THEN under
       ELSE before

\* For each of the first n lines of `text`, the blocks open after it.
RECURSIVE FrameTrail(_, _)
FrameTrail(text, n) ==
    IF n = 0 THEN <<>>
    ELSE LET trail == FrameTrail(text, n - 1)
         IN Append(trail, FramesAfter(IF n = 1 THEN <<>> ELSE trail[n - 1], text[n]))

\* The blocks open after the first n lines of `text`: for a line of text,
\* the blocks around it.
Frames(text, n) == IF n = 0 THEN <<>> ELSE FrameTrail(text, n)[n]

\* Every frame includes: its branch holds and no earlier branch of its chain did.
Included(frames) ==
    \A k \in 1..Len(frames) : frames[k].branch_active /\ ~frames[k].any_taken

\* Line n is an ELIF, ELSE or ENDIF with no block open, or follows the ELSE
\* of its block as a second ELSE or an ELIF; `before` are the blocks open
\* before the line.
Misplaced(before, line) ==
    /\ IsElif(line) \/ IsElse(line) \/ IsEndif(line)
    /\ \/ before = <<>>
       \/ (~IsEndif(line) /\ before[Len(before)].in_else)

\* Every IF is closed by its ENDIF, nothing is misplaced, and every condition
\* is one the evaluator accepts.
WellNested(text) ==
    LET trail == FrameTrail(text, Len(text))
    IN /\ \A n \in 1..Len(text) :
             ~Misplaced(IF n = 1 THEN <<>> ELSE trail[n - 1], text[n])
       /\ text # <<>> => trail[Len(text)] = <<>>
       /\ \A n \in 1..Len(text) :
             (IsIf(text[n]) \/ IsElif(text[n]))
                => eval(SubSeq(trim(text[n]), 4, Len(trim(text[n])))).ok

HasElif(text) == \E n \in 1..Len(text) : IsElif(text[n])

\* C16 (as claimed): of a well-nested template with ELIF chains, returned as
\* Some(res), a line of plain text is in res iff its branch is the first of
\* its chain whose condition holds, or the ELSE branch of a chain none of
\* whose conditions holds (and the same for the chains around it).
C16_FirstTrueWins ==
    (ret = "Some" /\ WellNested(contents) /\ HasElif(contents)) =>
        LET trail == FrameTrail(contents, Len(contents))
        IN \A n \in 1..Len(contents) :
              IsPlain(contents[n]) => ((n \in ToSet(emitted)) = Included(trail[n]))

\* C17: of a well-nested template of IF / ELSE / ENDIF blocks (no ELIF), a
\* line of plain text that the loop has passed was pushed to res iff, for
\* every block around it, it lies in the IF part with the condition true or
\* in the ELSE part with the condition false.
C17_NestedInclusion ==
    (WellNested(contents) /\ ~HasElif(contents)) =>
        LET trail == FrameTrail(contents, pc - 1)
        IN \A n \in 1..(pc - 1) :
              IsPlain(contents[n]) => ((n \in ToSet(emitted)) = Included(trail[n]))

\* A returned template with a line left out inside an inner branch that
\* includes, below an outer branch that does not, and with a line pushed
\* right after an inner ENDIF, back in an outer ELSE part.
C17_Witness ==
    /\ ret = "Some" /\ WellNested(contents) /\ ~HasElif(contents)
    /\ \E n \in 1..Len(contents) :
          /\ IsPlain(contents[n])
          /\ Len(Frames(contents, n)) >= 2
          /\ Included(<<Frames(contents, n)[Len(Frames(contents, n))]>>)
          /\ ~Included(Frames(contents, n))
          /\ n \notin ToSet(emitted)
    /\ \E m \in 2..Len(contents) :
          /\ IsPlain(contents[m])
          /\ IsEndif(contents[m - 1])
          /\ Len(Frames(contents, m)) = 1
          /\ Frames(contents, m)[1].in_else
          /\ m \in ToSet(emitted)

\* C18 (as claimed): an ENDIF met while no IF is open ends the call with a
\* fatal error.
C18_StrayEndifIsFatal ==
    \A n \in 1..(pc - 1) :
        (IsEndif(contents[n]) /\ Frames(contents, n - 1) = <<>>) => ret = "panic"

\* C19 (as claimed): an ELIF or an ELSE met while no IF is open ends the call
\* with a fatal error, and no text is returned for an input that ends while
\* an IF is open.
C19_MalformedNestingIsFatal ==
    /\ \A n \in 1..(pc - 1) :
          ((IsElif(contents[n]) \/ IsElse(contents[n])) /\ Frames(contents, n - 1) = <<>>)
             => ret = "panic"
    /\ ret = "Some" => Frames(contents, Len(contents)) = <<>>

\* The words of an include-file directive after its keyword: the condition
\* and, when given, the new name.
IncludeWords(line) == split_whitespace(SubSeq(trim(line), 4, Len(trim(line))))

\* The condition of the directive holds: its token is selected, or, for
\* !token, is not.
IncludeHolds(line) ==
    LET c == IncludeWords(line)[1]
    IN IF Head(c) = "!" THEN Tail(c) \notin opts ELSE c \in opts

C21_FirstLineOnly ==
    /\ ret = "None" => pc = 2
    /\ file_path # OrigPath =>
          /\ IsIncludeFile(contents[1])
          /\ Len(IncludeWords(contents[1])) >= 2
          /\ file_path = IncludeWords(contents[1])[2]

IsIgnoreFile(line) == Keyword(line, "IGNOREFILE")

\* C22 (as claimed): the first line being the ignore-file directive, in
\* either spelling, the call ends in None on that line, nothing pushed to
\* res and file_path left as the caller passed it, for every selection and
\* variable table.
C22_IgnoreFile ==
    (pc > 1 /\ IsIgnoreFile(contents[1])) =>
        /\ ret = "None"
        /\ pc = 2
        /\ res = <<>>
        /\ file_path = OrigPath

IsReplace(line) ==
    Keyword(line, "REPLACE") /\ starts_with(SubSeq(trim(line), 3, 3), <<" ">>)

\* A line with the preserve prefix.
Preserved(line) ==
    starts_with(trim(line), <<"#", "+">>) \/ starts_with(trim(line), <<"//", "+">>)

\* The words of the pairs of a replace directive, pair by pair.
PairWords(line) ==
    LET pairs == split(SubSeq(trim(line), 4, Len(trim(line))), <<" ", "&&", " ">>)
    IN [k \in 1..Len(pairs) |-> split_whitespace(pairs[k])]

\* The pair names a pattern and a variable of the table.
Known(words) ==
    Len(words) >= 2 /\ \E v \in 1..Len(variables) : variables[v].key = words[2]

\* The value of a variable of the table: that of its first entry.
ValueOf(name) ==
    LET first == CHOOSE v \in 1..Len(variables) :
                    /\ variables[v].key = name
                    /\ \A u \in 1..(v - 1) : variables[u].key # name
    IN variables[first].value

\* The (pattern, value) pairs a replace directive registers.
Resolved(line) ==
    LET known == SelectSeq(PairWords(line), Known)
    IN [k \in 1..Len(known) |-> [pattern |-> known[k][1], value |-> ValueOf(known[k][2])]]

\* The pairs of all replace directives among the lines from..to, in order.
RECURSIVE AllResolved(_, _)
AllResolved(from, to) ==
    IF from > to THEN <<>>
    ELSE (IF IsReplace(contents[from]) THEN Resolved(contents[from]) ELSE <<>>)
         \o AllResolved(from + 1, to)

\* The pairs of the last replace directive among the lines from..to that
\* registers any.
RECURSIVE LastResolved(_, _)
LastResolved(from, to) ==
    IF from > to THEN <<>>
    ELSE IF IsReplace(contents[to]) /\ Resolved(contents[to]) # <<>>
      THEN Resolved(contents[to])
    ELSE LastResolved(from, to - 1)

\* The line before the k-th emitted one that was emitted, 0 if there is none.
EmittedBefore(k) == IF k = 1 THEN 0 ELSE emitted[k - 1]

\* C23 (as claimed): every emitted line carries the substitutions of all
\* pairs registered by the replace directives since the line emitted before
\* it, and of no other pair; a pair naming no variable of the table puts
\* nothing in and ends nothing.
C23_ReplaceAsClaimed ==
    /\ \A k \in 1..Len(emitted) :
          ~Preserved(contents[emitted[k]]) =>
             res[k] = apply_replacements(contents[emitted[k]],
                                         AllResolved(EmittedBefore(k) + 1, emitted[k] - 1))
    /\ (pc > 1 /\ IsReplace(contents[pc - 1])) => ret \in {"running", "Some"}

\* C23: every emitted line carries the substitutions of the pairs of the
\* last replace directive, since the line emitted before it, that registered
\* any pair, and of no other pair: the pairs of a directive are spent on
\* the next emitted line and replaced by those of a directive read before
\* that line.  Nothing is pending once a line is emitted.  A pair naming
\* no variable of the table puts nothing in and ends nothing.
C23_ReplaceNextLine ==
    /\ \A k \in 1..Len(emitted) :
          ~Preserved(contents[emitted[k]]) =>
             res[k] = apply_replacements(contents[emitted[k]],
                                         LastResolved(EmittedBefore(k) + 1, emitted[k] - 1))
    /\ (pc > 1 /\ emitted # <<>> /\ emitted[Len(emitted)] = pc - 1) => replace = <<>>
    /\ (pc > 1 /\ IsReplace(contents[pc - 1])) => ret \in {"running", "Some"}

\* A line emitted with the substitution of a directive one of whose pairs
\* names no variable of the table, the next emitted line of the same text
\* emitted as it is.
C23_Witness ==
    /\ ret = "Some"
    /\ \E k \in 1..(Len(emitted) - 1) :
          /\ contents[emitted[k]] = contents[emitted[k + 1]]
          /\ res[k] # contents[emitted[k]]
          /\ res[k + 1] = contents[emitted[k + 1]]
          /\ emitted[k] > 1
          /\ IsReplace(contents[emitted[k] - 1])
          /\ Resolved(contents[emitted[k] - 1]) # <<>>
          /\ Len(Resolved(contents[emitted[k] - 1])) < Len(PairWords(contents[emitted[k] - 1]))

\* No line of the template is a directive, has the preserve prefix or is
\* the dropped annotation.
NoDirective(text) ==
    \A n \in 1..Len(text) :
        /\ ~IsIf(text[n]) /\ ~IsElif(text[n]) /\ ~IsElse(text[n]) /\ ~IsEndif(text[n])
        /\ ~IsReplace(text[n]) /\ ~IsIncludeFile(text[n]) /\ ~IsIgnoreFile(text[n])
        /\ ~Preserved(text[n])
        /\ trim(text[n]) # RustfmtSkip

\* C24: of a template without directive, preserve prefix and dropped
\* annotation the lines read so far are the lines of res, each as it
\* stands in the template and in the same order, the call does not end in
\* None or a panic, so that it returns Some(res) with res the lines of
\* the template, and file_path is the path the caller passed, for every
\* selection and variable table.
C24_RoundTrip ==
    NoDirective(contents) =>
        /\ res = SubSeq(contents, 1, pc - 1)
        /\ ret \in {"running", "Some"}
        /\ ret = "Some" => res = contents
        /\ file_path = OrigPath

\* A template of different lines of text returned as it is, an option
\* selected and the variable table filled.
C24_Witness ==
    /\ ret = "Some"
    /\ NoDirective(contents)
    /\ Len(contents) >= 3
    /\ \E n, m \in 1..Len(contents) : contents[n] # contents[m] /\ trim(contents[n]) # contents[n]
    /\ opts # {}
    /\ variables # <<>>
    /\ res = contents

\* The pairs of the last replace directive among the lines from..to that
\* registers any and lies where every enclosing block includes; `trail`
\* is the trail of the open blocks.
RECURSIVE LastResolvedIncluded(_, _, _)
LastResolvedIncluded(trail, from, to) ==
    IF from > to THEN <<>>
    ELSE IF /\ IsReplace(contents[to])
            /\ Resolved(contents[to]) # <<>>
            /\ Included(trail[to])
      THEN Resolved(contents[to])
    ELSE LastResolvedIncluded(trail, from, to - 1)

\* C27 (as claimed): a replace directive inside an excluded branch
\* registers nothing: every emitted line carries the substitutions of the
\* last resolving replace directive before it that lies in included text,
\* and none of a directive of an excluded branch.
C27_ExcludedReplaceIsInert ==
    LET trail == FrameTrail(contents, Len(contents))
    IN \A k \in 1..Len(emitted) :
          ~Preserved(contents[emitted[k]]) =>
             res[k] = apply_replacements(
                          contents[emitted[k]],
                          LastResolvedIncluded(trail, EmittedBefore(k) + 1, emitted[k] - 1))

\* The evaluator rejects the condition of an IF or ELIF line.
Rejected(line) == ~eval(SubSeq(trim(line), 4, Len(trim(line)))).ok

\* C28 (as claimed): the condition of an IF inside a branch that is not
\* included, and that of an ELIF of a chain one of whose earlier branches
\* held, is not evaluated: the call does not end in a panic on such a
\* line even though the evaluator would reject its condition.
C28_NoEvaluationWhenExcluded ==
    (pc > 2 /\ Rejected(contents[pc - 1])) =>
        LET before == Frames(contents, pc - 2)
        IN /\ (IsIf(contents[pc - 1]) /\ ~Included(before)) => ret # "panic"
           /\ (/\ IsElif(contents[pc - 1])
               /\ before # <<>>
               /\ \/ before[Len(before)].any_taken
                  \/ before[Len(before)].branch_active) => ret # "panic"

\* C25 (as claimed): after any sequence of select calls from the empty
\* selection no option occurs twice in `selected`; a select of an option
\* that is selected already adds no second entry.
C25_SelectedIsASet ==
    \A i, j \in 1..Len(selected) : i # j => selected[i] # selected[j]

\* An option below the category c, at any depth, is selected.
SelectedBelow(sel, c) ==
    \E s \in 1..Len(flatten_options(c.options)) :
        is_selected(sel, flatten_options(c.options)[s].name)

\* C26 (as claimed): after any sequence of interactive toggles every
\* category with a selected option below it has its own requires met, and
\* a toggle does not take out a selected option that a category names in
\* its requires while an option below that category is selected.
C26_CategoryGating ==
    /\ \A c \in CategoriesIn(options) :
          SelectedBelow(selected, c) => requirements_met(selected, c.requires)
    /\ last.op = "toggle" =>
          \A c \in CategoriesIn(options) :
             (/\ is_selected(last.before, last.arg)
              /\ \E r \in 1..Len(c.requires) :
                    ~c.requires[r].neg /\ c.requires[r].key = last.arg
              /\ SelectedBelow(last.before, c))
                => is_selected(selected, last.arg)

\* C29 (as claimed): whenever an option x is selected and can_be_disabled(x)
\* is false, the required_by list of collect_relationships(x) is not empty
\* and each of its names is a selected option that requires x by name or
\* by x's selection group.
C29_LockIsExplained ==
    \A i \in 1..Len(flat_options) :
        (/\ is_selected(selected, flat_options[i].name)
         /\ ~can_be_disabled_impl(selected, i, FALSE))
           => LET by == collect_relationships(selected, flat_options[i]).required_by
              IN /\ by # <<>>
                 /\ \A k \in 1..Len(by) :
                       /\ is_selected(selected, by[k])
                       /\ \/ Declares(OptIdx(by[k]), Pos(flat_options[i].name))
                          \/ /\ flat_options[i].selection_group # NoGroup
                             /\ Declares(OptIdx(by[k]), Pos(flat_options[i].selection_group))

\* C30: a call of try_get_toolchain_list is one step that is always
\* possible, it never waits for the scan thread.  A call made while nothing
\* was cached, the scan thread had sent nothing and was alive returned
\* None.  Once a call has returned Some(r) every later call returns the
\* same Some(r) and does not call try_recv, and r stays in `cached`.  A
\* call that found nothing cached, nothing sent and the scan thread gone
\* returned Some(Ok(empty list)), latched like any other answer.
C30_NonBlockingLatch ==
    /\ (scan # "none" /\ Len(answers) < MaxCalls) => ENABLED TryGet
    /\ \A k \in 1..Len(answers) :
          /\ (~answers[k].cached /\ answers[k].empty /\ answers[k].alive)
                => answers[k].ret = NoList
          /\ (~answers[k].cached /\ answers[k].empty /\ ~answers[k].alive)
                => answers[k].ret = SomeList(Ok(<<>>))
          /\ answers[k].ret.some =>
                /\ cached = answers[k].ret
                /\ \A j \in (k + 1)..Len(answers) :
                      answers[j].ret = answers[k].ret /\ ~answers[j].polled

\* Three calls: None while the scan ran, then the list the thread sent,
\* then the same list again although the thread is gone by then.
C30_Witness ==
    /\ Len(answers) = 3
    /\ answers[1].ret = NoList
    /\ answers[2].ret.some /\ answers[2].ret.value.ok /\ answers[2].ret.value.list # <<>>
    /\ answers[3].ret = answers[2].ret
    /\ ~answers[3].alive /\ ~answers[3].polled

\* The tool is missing or older than its minimum version.
Unmet(version, min) == ~version.some \/ version_lt(version.version, min)

\* The report ends with the footer.
HasFooter == message # <<>> /\ message[Len(message)].kind = "footer"

\* C31 (as claimed): the report returned has the footer iff a required
\* tool (Rust, espflash, probe-rs when probe_rs_required) is missing or
\* below its minimum: a missing or outdated probe-rs that is not required,
\* and esp-config in any state, never bring the footer in; when every
\* tool meets its minimum the report is four OK rows and no footer.
C31_FooterIffRequiredUnmet ==
    step = 6 =>
        /\ HasFooter = (\/ Unmet(versions.rust_version, versions.msrv)
                        \/ Unmet(versions.espflash_version, EspflashMinimum)
                        \/ /\ probe_rs_required
                           /\ Unmet(versions.probers_version, ProbeRsMinimum))
        /\ (/\ ~Unmet(versions.rust_version, versions.msrv)
            /\ ~Unmet(versions.espflash_version, EspflashMinimum)
            /\ ~Unmet(versions.probers_version, ProbeRsMinimum)
            /\ ~Unmet(versions.esp_config_version, EspConfigMinimum))
              => /\ Len(message) = 4
                 /\ \A k \in 1..4 : message[k].emoji = "OK" /\ message[k].kind = "Ok"

\* C32: run returns Some(selection) on s / S pressed with no confirmation
\* pending, the selection being the current one, and returns it on nothing
\* else; it returns None on y / Y pressed while the confirmation is pending
\* and on nothing else; while run goes on the confirmation is pending only right after q,
\* or Esc with one menu open, pressed while it was not pending; any other
\* key pressed while it is pending ends the pending and changes neither the
\* selection nor the open menus, their rows and the path, nor ends run.
C32_SaveAndCancel ==
    /\ run.kind \in {"running", "Some", "None"}
    /\ run.kind = "Some" <=> (pressed.code \in {"s", "S"} /\ ~pressed.confirm_quit)
    /\ run.kind = "Some" => (run.selected = pressed.selected /\ selected = pressed.selected)
    /\ run.kind = "None" <=> (pressed.code \in {"y", "Y"} /\ pressed.confirm_quit)
    /\ (confirm_quit /\ run = Running) =>
          /\ ~pressed.confirm_quit
          /\ \/ pressed.code = "q"
             \/ pressed.code = "Esc" /\ Len(pressed.state) = 1
    /\ (pressed.confirm_quit /\ pressed.code \notin {"y", "Y"}) =>
          /\ ~confirm_quit
          /\ run = Running
          /\ selected = pressed.selected
          /\ state = pressed.state
          /\ path = pressed.path

\* The save key pressed while the confirmation was pending, inside a
\* category and with options selected: the editor goes on as it was.
C32_Witness ==
    /\ pressed.confirm_quit
    /\ pressed.code = "s"
    /\ run = Running
    /\ selected # <<>>
    /\ Len(state) = 2 /\ state[2] > 1

====
